---------------------------- MODULE Spec2Model ----------------------------
(***************************************************************************)
(* A model of lexrpc: the lexicon registry built by Base.__init__, the     *)
(* schema validator Base._maybe_validate, the parameter codec              *)
(* Base.encode_params / Base.decode_params, and the attribute-style NSID   *)
(* builder of the client (_NsidClient, Client.__getattr__).                *)
(*                                                                         *)
(* Python strings are sequences of one-character strings, so that slicing, *)
(* concatenation, replace and the NSID regular expressions are computed    *)
(* character by character.  Type names, slot names and property names are  *)
(* atoms (TLA+ strings).                                                   *)
(***************************************************************************)
EXTENDS Integers, Sequences, FiniteSets, TLC

VARIABLES
    lexicons,   \* the lexicon documents the caller passes to the constructor
    base,       \* the Base instance: built, defs, _validate, _truncate
    value,      \* the caller's object handed to _maybe_validate
    params,     \* the caller's parameter mapping handed to encode_params
    raw,        \* the raw (name, string) pairs handed to decode_params
    cur,        \* the object the client's attribute chain currently denotes
    calls,      \* the nsids Client.call was invoked with, in order
    op,         \* the last operation performed
    args,       \* its arguments
    result,     \* its outcome: a return value, None, or a raised exception
    frame,      \* the Client.call or endpoint request in progress
    sent        \* the transport requests issued, in order

vars ==
    <<lexicons, base, value, params, raw, cur, calls, op, args, result,
      frame, sent>>

-----------------------------------------------------------------------------
(* Bounds of the model.                                                    *)

MaxDocs == 2        \* lexicon documents per constructor call
MaxStrLen == 3      \* length of the string field values
MaxGraphemes == 2   \* largest maxGraphemes a property declares
MaxSegs == 3        \* attribute accesses in one client chain
MaxParams == 2      \* entries of the mapping handed to encode_params
MaxPairs == 2       \* raw pairs handed to decode_params

-----------------------------------------------------------------------------
(* Outcomes of a call.                                                     *)

Return(v) == [kind |-> "return", val |-> v]
ReturnNone == [kind |-> "none"]
Raise(e, n) == [kind |-> "raise", exc |-> e, name |-> n]
RaiseAt(e, i) == [kind |-> "raise", exc |-> e, pos |-> i]
NoResult == [kind |-> "idle"]
NoArgs == [none |-> TRUE]

IsRaise(r, e) == r.kind = "raise" /\ r.exc = e

-----------------------------------------------------------------------------
(* Type tables of base.py.                                                 *)

METHOD_TYPES == {"query", "procedure", "subscription"}
LEXICON_TYPES == METHOD_TYPES \cup {"object", "record", "ref", "token"}
PARAMETER_TYPES == {"array", "boolean", "integer", "number", "string"}
SLOTS == {"input", "output", "message", "parameters", "record"}

-----------------------------------------------------------------------------
(* Python values.  k is the runtime class: "null" (NoneType), "bool",      *)
(* "int", "float", "str", "bytes", "list", "dict".  n is the number of a   *)
(* bool (0/1) or int, and the mantissa of a float whose value is           *)
(* n * 10^(-e); s holds the characters of a str or bytes (and the word     *)
(* "nan" or "inf" of a float that is not finite); a holds the items of a   *)
(* list; a dict held as a field value has n keys.                          *)

Val(k, n, e, s, a) == [k |-> k, n |-> n, e |-> e, s |-> s, a |-> a]
PyNone == Val("null", 0, 0, <<>>, <<>>)
PyBool(b) == Val("bool", IF b THEN 1 ELSE 0, 0, <<>>, <<>>)
PyInt(n) == Val("int", n, 0, <<>>, <<>>)
PyFloat(m, e) == Val("float", m, e, <<>>, <<>>)
PyNaN == Val("float", 0, 0, <<"n", "a", "n">>, <<>>)
PyInf(sign) == Val("float", sign, 0, <<"i", "n", "f">>, <<>>)
PyStr(s) == Val("str", 0, 0, s, <<>>)
PyBytes(s) == Val("bytes", 0, 0, s, <<>>)
PyList(a) == Val("list", 0, 0, <<>>, a)
PyDict(size) == Val("dict", size, 0, <<>>, <<>>)

\* A mapping the caller passes as the validated object: m maps the keys it
\* holds to their values.
Obj(m) == [k |-> "dict", m |-> m]
EmptyMap == <<>>

-----------------------------------------------------------------------------
(* Lexicon documents and definitions.                                      *)

\* A schema dict: nonempty is FALSE for an absent or empty dict ("not
\* schema"); properties lists its properties in the order of the dict.
SchemaDict(properties, required, nullable) ==
    [nonempty |-> TRUE, properties |-> properties,
     required |-> required, nullable |-> nullable]
NoSchema ==
    [nonempty |-> FALSE, properties |-> <<>>, required |-> {}, nullable |-> {}]

\* A property of a schema: has_max is FALSE when it has no 'maxGraphemes';
\* items is the 'type' of its 'items'.
Prop(name, type, has_max, max, items) ==
    [name |-> name, type |-> type, has_max |-> has_max, max |-> max,
     items |-> items]

\* A slot of a definition, defn.get(slot, {}): encoding is "" when the slot
\* has no 'encoding'; direct holds the 'properties', 'required' and
\* 'nullable' keys of the slot dict itself; schema is the dict under its
\* 'schema' key.
Slot(encoding, direct, schema) ==
    [encoding |-> encoding, direct |-> direct, schema |-> schema]
NoSlot == Slot("", NoSchema, NoSchema)
NoSlots == [s \in SLOTS |-> NoSlot]

\* A definition: its 'type' and its slots.
Defn(type, slots) == [type |-> type, slots |-> slots]

MAIN == <<"m", "a", "i", "n">>

\* A document: has_id is FALSE when the 'id' key is missing; defs are the
\* (name, defn) items of the 'defs' dict in order, the names distinct.
Doc(has_id, id, defs) == [has_id |-> has_id, id |-> id, defs |-> defs]
Item(name, defn) == [name |-> name, defn |-> defn]

-----------------------------------------------------------------------------
(* Base.__init__: the registry.                                            *)

NoBase == [built |-> FALSE, defs |-> <<>>, validate |-> TRUE, truncate |-> FALSE]

\* a faulty variant that qualifies 'main' like any other name
QualifiedIdNoMain(nsid, name) == nsid \o <<"#">> \o name

\* id = nsid if name == 'main' else f'{nsid}#{name}'
QualifiedId(nsid, name) ==
    IF name = MAIN THEN nsid ELSE nsid \o <<"#">> \o name

\* type not in LEXICON_TYPES | PARAMETER_TYPES
BadType(type) == type \notin (LEXICON_TYPES \cup PARAMETER_TYPES)

\* the inner loop over lexicon.get('defs', {}).items(), from item j on
RECURSIVE LoadDefs(_, _, _, _)
LoadDefs(defs, nsid, items, j) ==
    IF j > Len(items) THEN [ok |-> TRUE, defs |-> defs]
    ELSE LET id == QualifiedId(nsid, items[j].name)
             stored == (id :> items[j].defn) @@ defs
         IN  IF BadType(items[j].defn.type)
             THEN [ok |-> FALSE, defs |-> stored,
                   err |-> Raise("ValidationError", id)]
             ELSE LoadDefs(stored, nsid, items, j + 1)

\* a faulty variant that accepts an empty id
MissingIdOnlyAbsent(doc) == ~doc.has_id

\* nsid = lexicon.get('id'); if not nsid
MissingId(doc) == ~doc.has_id \/ doc.id = <<>>

\* the outer loop over enumerate(lexicons), from document i (1-based) on;
\* the position the error names is enumerate's, i - 1
RECURSIVE LoadFrom(_, _, _)
LoadFrom(defs, docs, i) ==
    IF i > Len(docs) THEN [ok |-> TRUE, defs |-> defs]
    ELSE IF MissingId(docs[i])
         THEN [ok |-> FALSE, defs |-> defs,
               err |-> RaiseAt("ValidationError", i - 1)]
         ELSE LET r == LoadDefs(defs, docs[i].id, docs[i].defs, 1)
              IN  IF r.ok THEN LoadFrom(r.defs, docs, i + 1) ELSE r

Load(docs) == LoadFrom(<<>>, docs, 1)

\* Base(lexicons, validate, truncate): an exception leaves no instance
Construct(v, t) ==
    /\ op = "start"
    /\ LET r == Load(lexicons)
       IN  /\ base' = IF r.ok
                      THEN [built |-> TRUE, defs |-> r.defs,
                            validate |-> v, truncate |-> t]
                      ELSE NoBase
           /\ result' = IF r.ok THEN ReturnNone ELSE r.err
    /\ op' = "construct"
    /\ args' = [validate |-> v, truncate |-> t]
    /\ UNCHANGED <<lexicons, value, params, raw, cur, calls, frame, sent>>

\* lexicon = self.defs.get(id); if not lexicon: fail(...)
\* (a stored definition always holds 'type', so it is never an empty dict)
GetDefResult(b, id) ==
    IF id \in DOMAIN b.defs THEN Return(b.defs[id])
    ELSE Raise("NotImplementedError", id)

\* Base._get_def(id)
GetDef(id) ==
    /\ base.built
    /\ result' = GetDefResult(base, id)
    /\ op' = "get_def"
    /\ args' = [id |-> id]
    /\ UNCHANGED <<lexicons, base, value, params, raw, cur, calls, frame, sent>>

-----------------------------------------------------------------------------
(* Base._maybe_validate.                                                   *)

\* the one-character string U+2026 (HORIZONTAL ELLIPSIS)
ELLIPSIS == "U+2026"

\* FIELD_TYPES and isinstance(val, FIELD_TYPES[type]): bool is a subclass of
\* int, so a bool is an instance of int
FIELD_TYPES ==
    {"null", "boolean", "integer", "string", "bytes", "array", "object"}

IsInstance(val, type) ==
    \/ type = "null" /\ val.k = "null"
    \/ type = "boolean" /\ val.k = "bool"
    \/ type = "integer" /\ val.k \in {"int", "bool"}
    \/ type = "string" /\ val.k = "str"
    \/ type = "bytes" /\ val.k = "bytes"
    \/ type = "array" /\ val.k = "list"
    \/ type = "object" /\ val.k = "dict"

\* bool(val)
Truthy(val) ==
    CASE val.k = "null" -> FALSE
      [] val.k \in {"bool", "int", "dict"} -> val.n # 0
      [] val.k = "float" -> val.n # 0 \/ val.s # <<>>
      [] val.k \in {"str", "bytes"} -> val.s # <<>>
      [] val.k = "list" -> val.a # <<>>

\* whether len(val) is defined, and its value
HasLen(val) == val.k \in {"str", "bytes", "list", "dict"}
PyLen(val) ==
    CASE val.k \in {"str", "bytes"} -> Len(val.s)
      [] val.k = "list" -> Len(val.a)
      [] val.k = "dict" -> val.n

\* a faulty variant that keeps max_graphemes characters before the ellipsis
TruncatedKeepMax(s, max) == SubSeq(s, 1, max) \o <<ELLIPSIS>>

\* val[:max_graphemes - 1] + ELLIPSIS for a str
Truncated(s, max) == SubSeq(s, 1, max - 1) \o <<ELLIPSIS>>

\* base = self._get_def(nsid).get(type, {}); the dict that is the schema:
\* base itself for 'record', base.get('schema') otherwise
SchemaOf(slot, type) ==
    IF type = "record"
    THEN [slot.direct EXCEPT
              !.nonempty = slot.encoding # "" \/ slot.direct.nonempty
                           \/ slot.schema.nonempty]
    ELSE slot.schema

\* if max_graphemes := config.get('maxGraphemes')
HasMaxGraphemes(prop) == prop.has_max /\ prop.max # 0

\* the truncation loop over schema.get('properties', {}).items(), from
\* property i on; obj is replaced by a copy with the shortened field
RECURSIVE TruncateFrom(_, _, _)
TruncateFrom(obj, props, i) ==
    IF i > Len(props) THEN [ok |-> TRUE, obj |-> obj]
    ELSE IF ~HasMaxGraphemes(props[i]) THEN TruncateFrom(obj, props, i + 1)
    ELSE IF obj.k # "dict"
         THEN [ok |-> FALSE, err |-> Raise("AttributeError", props[i].name)]
    ELSE LET name == props[i].name
             max == props[i].max
         IN  IF name \notin DOMAIN obj.m \/ ~Truthy(obj.m[name])
             THEN TruncateFrom(obj, props, i + 1)
             ELSE LET val == obj.m[name]
                  IN  IF ~HasLen(val)
                      THEN [ok |-> FALSE, err |-> Raise("TypeError", name)]
                      ELSE IF PyLen(val) <= max
                      THEN TruncateFrom(obj, props, i + 1)
                      ELSE IF val.k # "str"
                      \* bytes + str, list + str, and slicing a dict
                      THEN [ok |-> FALSE, err |-> Raise("TypeError", name)]
                      ELSE TruncateFrom(
                               Obj((name :> PyStr(Truncated(val.s, max)))
                                   @@ obj.m),
                               props, i + 1)

\* if type == 'array': the loop over the items, where type is the slot name
ItemsChecked(type, prop) == type = "array"

\* the position of the first item that is no instance of the items' type, 0
\* when every item is one
FirstBadItem(val, prop) ==
    LET bad == {j \in 1..Len(val.a) : ~IsInstance(val.a[j], prop.items)}
    IN  IF bad = {} THEN 0 ELSE CHOOSE j \in bad : \A h \in bad : j <= h

\* a faulty variant that requires nothing
IsRequiredNever(schema, name) == FALSE

\* name in schema.get('required', [])
IsRequired(schema, name) == name \in schema.required

\* name in schema.get('nullable', [])
IsNullable(schema, name) == name \in schema.nullable

\* the validation loop over schema.get('properties', {}).items(), from
\* property i on
RECURSIVE CheckFrom(_, _, _, _)
CheckFrom(obj, schema, type, i) ==
    IF i > Len(schema.properties) THEN Return(obj)
    ELSE IF obj.k # "dict" THEN Raise("TypeError", schema.properties[i].name)
    ELSE LET prop == schema.properties[i]
             name == prop.name
         IN  IF name \notin DOMAIN obj.m
             THEN IF IsRequired(schema, name)
                  THEN Raise("ValidationError", name)
                  ELSE CheckFrom(obj, schema, type, i + 1)
             ELSE IF obj.m[name].k = "null"
             THEN IF ~IsNullable(schema, name)
                  THEN Raise("ValidationError", name)
                  ELSE CheckFrom(obj, schema, type, i + 1)
             ELSE IF prop.type \notin FIELD_TYPES
             THEN Raise("KeyError", name)
             ELSE IF ~IsInstance(obj.m[name], prop.type)
             THEN Raise("ValidationError", name)
             ELSE IF ItemsChecked(type, prop)
                     /\ prop.items \notin FIELD_TYPES
                     /\ obj.m[name].a # <<>>
             THEN Raise("KeyError", name)
             ELSE IF ItemsChecked(type, prop)
                     /\ FirstBadItem(obj.m[name], prop) # 0
             THEN Raise("ValidationError", name)
             ELSE CheckFrom(obj, schema, type, i + 1)

\* if not self._validate: return
DisabledReturn(obj) == ReturnNone

\* _maybe_validate(nsid, type, obj) on instance b
MaybeValidate(b, nsid, type, obj) ==
    IF type \notin SLOTS THEN Raise("AssertionError", type)
    ELSE IF nsid \notin DOMAIN b.defs THEN Raise("NotImplementedError", nsid)
    ELSE LET slot == b.defs[nsid].slots[type]
             schema == SchemaOf(slot, type)
         IN  IF slot.encoding # "" /\ slot.encoding # "application/json"
             THEN Return(obj)
             ELSE IF ~schema.nonempty THEN ReturnNone
             ELSE LET tr == IF b.truncate
                            THEN TruncateFrom(obj, schema.properties, 1)
                            ELSE [ok |-> TRUE, obj |-> obj]
                  IN  IF ~tr.ok THEN tr.err
                      ELSE IF ~b.validate THEN DisabledReturn(tr.obj)
                      ELSE CheckFrom(tr.obj, schema, type, 1)

\* the dict the local name obj is bound to when the truncation block is
\* left without an exception
LocalObj(b, nsid, type, obj) ==
    IF type \notin SLOTS \/ nsid \notin DOMAIN b.defs THEN obj
    ELSE LET slot == b.defs[nsid].slots[type]
             schema == SchemaOf(slot, type)
         IN  IF slot.encoding # "" /\ slot.encoding # "application/json"
             THEN obj
             ELSE IF ~schema.nonempty \/ ~b.truncate THEN obj
             ELSE LET tr == TruncateFrom(obj, schema.properties, 1)
                  IN  IF tr.ok THEN tr.obj ELSE obj

\* a faulty variant that shortens the field in the caller's dict
AssignedInPlace(caller, local) == local

\* obj = {**obj, name: ...} builds a new dict and binds the local name to
\* it: the caller's dict keeps its items
CallerObj(caller, local) == caller

\* validating the caller's value against a slot of a definition
Validate(nsid, type) ==
    /\ base.built
    /\ result' = MaybeValidate(base, nsid, type, value)
    /\ value' = CallerObj(value, LocalObj(base, nsid, type, value))
    /\ op' = "validate"
    /\ args' = [nsid |-> nsid, type |-> type]
    /\ UNCHANGED <<lexicons, base, params, raw, cur, calls, frame, sent>>

\* what a caller holds after a call returned: None after a bare return
Returned(r) == IF r.kind = "none" THEN PyNone ELSE r.val

\* validating what the last validation returned, against the same slot
Revalidate ==
    /\ op = "validate"
    /\ result.kind \in {"return", "none"}
    /\ result' = MaybeValidate(base, args.nsid, args.type, Returned(result))
    /\ op' = "revalidate"
    /\ args' = [nsid |-> args.nsid, type |-> args.type, first |-> result]
    /\ UNCHANGED <<lexicons, base, value, params, raw, cur, calls, frame, sent>>

-----------------------------------------------------------------------------
(* Python's str(), int() and float() on the values the codec handles.      *)

DIGITS == <<"0", "1", "2", "3", "4", "5", "6", "7", "8", "9">>
IsDigit(c) == \E d \in 1..10 : DIGITS[d] = c
DigitVal(c) == (CHOOSE d \in 1..10 : DIGITS[d] = c) - 1

RECURSIVE Pow10(_)
Pow10(e) == IF e = 0 THEN 1 ELSE 10 * Pow10(e - 1)

RECURSIVE NatStr(_)
NatStr(n) ==
    IF n < 10 THEN <<DIGITS[n + 1]>>
    ELSE NatStr(n \div 10) \o <<DIGITS[(n % 10) + 1]>>

\* str(n) of an int
IntStr(n) == IF n < 0 THEN <<"-">> \o NatStr(0 - n) ELSE NatStr(n)

RECURSIVE Zeros(_)
Zeros(k) == IF k <= 0 THEN <<>> ELSE <<"0">> \o Zeros(k - 1)

\* str(x) of a float, in the range where repr uses no exponent
FloatStr(v) ==
    IF v.s = <<"n", "a", "n">> THEN v.s
    ELSE IF v.s = <<"i", "n", "f">>
    THEN (IF v.n < 0 THEN <<"-">> ELSE <<>>) \o v.s
    ELSE LET mag == IF v.n < 0 THEN 0 - v.n ELSE v.n
             ds == NatStr(mag)
             padded == Zeros(v.e + 1 - Len(ds)) \o ds
             sign == IF v.n < 0 THEN <<"-">> ELSE <<>>
         IN  IF v.e = 0 THEN sign \o ds \o <<".", "0">>
             ELSE sign \o SubSeq(padded, 1, Len(padded) - v.e) \o <<".">>
                      \o SubSeq(padded, Len(padded) - v.e + 1, Len(padded))

\* str(v)
PyStrOf(v) ==
    CASE v.k = "str" -> v.s
      [] v.k = "int" -> IntStr(v.n)
      [] v.k = "float" -> FloatStr(v)
      [] v.k = "bool" -> IF v.n = 1 THEN <<"T", "r", "u", "e">>
                                    ELSE <<"F", "a", "l", "s", "e">>
      [] v.k = "null" -> <<"N", "o", "n", "e">>

\* s.strip() of the whitespace int() and float() skip
RECURSIVE StripLeft(_)
StripLeft(s) ==
    IF s # <<>> /\ Head(s) = " " THEN StripLeft(Tail(s)) ELSE s
RECURSIVE StripRight(_)
StripRight(s) ==
    IF s # <<>> /\ s[Len(s)] = " " THEN StripRight(SubSeq(s, 1, Len(s) - 1))
    ELSE s
Strip(s) == StripRight(StripLeft(s))

HasSign(s) == s # <<>> /\ Head(s) \in {"+", "-"}
Unsigned(s) == IF HasSign(s) THEN Tail(s) ELSE s
SignOf(s) == IF s # <<>> /\ Head(s) = "-" THEN 0 - 1 ELSE 1

\* digits, with single underscores between digits
DigitGroup(s) ==
    /\ s # <<>>
    /\ IsDigit(s[1]) /\ IsDigit(s[Len(s)])
    /\ \A i \in 1..Len(s) :
           \/ IsDigit(s[i])
           \/ s[i] = "_" /\ s[i + 1] # "_"

RECURSIVE NatOf(_)
NatOf(s) ==
    IF s = <<>> THEN 0
    ELSE IF IsDigit(s[Len(s)])
         THEN 10 * NatOf(SubSeq(s, 1, Len(s) - 1)) + DigitVal(s[Len(s)])
         ELSE NatOf(SubSeq(s, 1, Len(s) - 1))

\* int(s): ok is FALSE where int() raises ValueError
ParseInt(s) ==
    LET body == Unsigned(Strip(s))
    IN  IF DigitGroup(body)
        THEN [ok |-> TRUE, val |-> PyInt(SignOf(Strip(s)) * NatOf(body))]
        ELSE [ok |-> FALSE]

\* the position of the first c in s, 0 when there is none
FirstIndex(s, c) ==
    LET at == {i \in 1..Len(s) : s[i] = c}
    IN  IF at = {} THEN 0 ELSE CHOOSE i \in at : \A j \in at : i <= j

\* a float of value m * 10^(-e), no trailing zero kept in the mantissa
RECURSIVE Normalized(_, _)
Normalized(m, e) ==
    IF e < 0 THEN Normalized(m * 10, e + 1)
    ELSE IF m = 0 THEN PyFloat(0, 0)
    ELSE IF e > 0 /\ m % 10 = 0 THEN Normalized(m \div 10, e - 1)
    ELSE PyFloat(m, e)

\* float(s): ok is FALSE where float() raises ValueError
ParseFloat(s) ==
    LET t == Strip(s)
        sign == SignOf(t)
        body == Unsigned(t)
        ex == FirstIndex(body, "e")
        mant == IF ex = 0 THEN body ELSE SubSeq(body, 1, ex - 1)
        expo == IF ex = 0 THEN <<>> ELSE SubSeq(body, ex + 1, Len(body))
        dot == FirstIndex(mant, ".")
        whole == IF dot = 0 THEN mant ELSE SubSeq(mant, 1, dot - 1)
        frac == IF dot = 0 THEN <<>> ELSE SubSeq(mant, dot + 1, Len(mant))
        fdigits == SelectSeq(frac, IsDigit)
        expval == SignOf(expo) * NatOf(Unsigned(expo))
    IN  IF body = <<"n", "a", "n">> THEN [ok |-> TRUE, val |-> PyNaN]
        ELSE IF body \in {<<"i", "n", "f">>,
                          <<"i", "n", "f", "i", "n", "i", "t", "y">>}
        THEN [ok |-> TRUE, val |-> PyInf(sign)]
        ELSE IF /\ whole = <<>> \/ DigitGroup(whole)
                /\ frac = <<>> \/ DigitGroup(frac)
                /\ whole # <<>> \/ frac # <<>>
                /\ ex = 0 \/ DigitGroup(Unsigned(expo))
        THEN [ok |-> TRUE,
              val |-> Normalized(sign * (NatOf(whole) * Pow10(Len(fdigits))
                                         + NatOf(fdigits)),
                                 Len(fdigits) - expval)]
        ELSE [ok |-> FALSE]

\* a == b of two Python values
IsNumber(v) == v.k \in {"bool", "int", "float"}
RECURSIVE PyEq(_, _)
PyEq(x, y) ==
    IF IsNumber(x) /\ IsNumber(y)
    THEN IF x.s = <<"n", "a", "n">> \/ y.s = <<"n", "a", "n">> THEN FALSE
         ELSE IF x.s # <<>> \/ y.s # <<>> THEN x.s = y.s /\ x.n = y.n
         ELSE x.n * Pow10(y.e) = y.n * Pow10(x.e)
    ELSE IF x.k = "list" /\ y.k = "list"
    THEN /\ Len(x.a) = Len(y.a)
         /\ \A i \in 1..Len(x.a) : PyEq(x.a[i], y.a[i])
    ELSE x = y

-----------------------------------------------------------------------------
(* Base.encode_params and Base.decode_params.                              *)

\* a (name, value) item of a dict, a (name, string) pair of a query
Entry(name, val) == [name |-> name, val |-> val]

\* 'true' if val is True else 'false' if val is False else val
BoolWord(val) ==
    IF val.k = "bool"
    THEN PyStr(IF val.n = 1 THEN <<"t", "r", "u", "e">>
                            ELSE <<"f", "a", "l", "s", "e">>)
    ELSE val

\* urlencode(..., doseq=True) of one item: a str is one pair, a list one pair
\* per element, str(elt) of each, anything else one pair of its str()
RECURSIVE EncodeItems(_, _)
EncodeItems(name, items) ==
    IF items = <<>> THEN <<>>
    ELSE <<Entry(name, PyStrOf(Head(items)))>> \o EncodeItems(name, Tail(items))

EncodeEntry(name, val) ==
    LET v == BoolWord(val)
    IN  IF v.k = "list" THEN EncodeItems(name, v.a)
        ELSE <<Entry(name, PyStrOf(v))>>

\* encode_params(params): the name=value pairs of the query string, in order
RECURSIVE EncodeParams(_)
EncodeParams(ps) ==
    IF ps = <<>> THEN <<>>
    ELSE EncodeEntry(Head(ps).name, Head(ps).val) \o EncodeParams(Tail(ps))

\* lexicon.get('parameters', {}).get('properties', {})
ParamsSchema(defn) == defn.slots["parameters"].direct.properties

\* params_schema.get(name, {}).get('type') or 'string'
DeclaredType(props, name) ==
    LET at == {i \in 1..Len(props) : props[i].name = name}
    IN  IF at = {} THEN "string"
        ELSE LET ty == props[CHOOSE i \in at : TRUE].type
             IN  IF ty = "" THEN "string" ELSE ty

\* a faulty variant that reads every other text as False
DecodeBooleanLax(val) ==
    [ok |-> TRUE, val |-> PyBool(val = <<"t", "r", "u", "e">>)]

\* val == 'true' / val == 'false' / raise ValueError
DecodeBoolean(val) ==
    IF val = <<"t", "r", "u", "e">> THEN [ok |-> TRUE, val |-> PyBool(TRUE)]
    ELSE IF val = <<"f", "a", "l", "s", "e">>
    THEN [ok |-> TRUE, val |-> PyBool(FALSE)]
    ELSE [ok |-> FALSE]

\* a faulty variant that puts each new occurrence first
AppendedFirst(decoded, name, val) ==
    IF name \in DOMAIN decoded
    THEN (name :> PyList(<<PyStr(val)>> \o decoded[name].a)) @@ decoded
    ELSE (name :> PyList(<<PyStr(val)>>)) @@ decoded

\* decoded.setdefault(name, []).append(val)
Appended(decoded, name, val) ==
    IF name \in DOMAIN decoded
    THEN (name :> PyList(Append(decoded[name].a, PyStr(val)))) @@ decoded
    ELSE (name :> PyList(<<PyStr(val)>>)) @@ decoded

\* the loop over params, from pair i on
RECURSIVE DecodeFrom(_, _, _, _)
DecodeFrom(decoded, props, pairs, i) ==
    IF i > Len(pairs) THEN Return(Obj(decoded))
    ELSE LET name == pairs[i].name
             val == pairs[i].val
             type == DeclaredType(props, name)
         IN  IF type \notin PARAMETER_TYPES THEN Raise("AssertionError", name)
             ELSE IF type = "boolean"
             THEN LET b == DecodeBoolean(val)
                  IN  IF b.ok
                      THEN DecodeFrom((name :> b.val) @@ decoded, props, pairs,
                                      i + 1)
                      ELSE Raise("ValueError", name)
             ELSE IF type \in {"number", "integer"}
             THEN LET n == IF type = "number" THEN ParseFloat(val)
                                              ELSE ParseInt(val)
                  IN  IF n.ok
                      THEN DecodeFrom((name :> n.val) @@ decoded, props, pairs,
                                      i + 1)
                      ELSE Raise("ValueError", name)
             ELSE IF type = "string"
             THEN DecodeFrom((name :> PyStr(val)) @@ decoded, props, pairs,
                             i + 1)
             ELSE DecodeFrom(Appended(decoded, name, val), props, pairs, i + 1)

\* decode_params(method_nsid, params) on instance b
DecodeParams(b, nsid, pairs) ==
    IF nsid \notin DOMAIN b.defs THEN Raise("NotImplementedError", nsid)
    ELSE DecodeFrom(EmptyMap, ParamsSchema(b.defs[nsid]), pairs, 1)

\* encoding the caller's mapping: the pairs of the query travel as raw
Encode ==
    /\ base.built
    /\ raw' = EncodeParams(params)
    /\ result' = Return(EncodeParams(params))
    /\ op' = "encode"
    /\ args' = NoArgs
    /\ UNCHANGED <<lexicons, base, value, params, cur, calls, frame, sent>>

\* decoding the raw pairs; encoded tells that they are the pairs encode_params
\* has just produced
Decode(nsid) ==
    /\ base.built
    /\ result' = DecodeParams(base, nsid, raw)
    /\ op' = "decode"
    /\ args' = [nsid |-> nsid, encoded |-> op = "encode"]
    /\ UNCHANGED <<lexicons, base, value, params, raw, cur, calls, frame, sent>>

-----------------------------------------------------------------------------
(* The client's attribute-style identifier construction.                   *)

LOWER ==
    {"a", "b", "c", "d", "e", "f", "g", "h", "i", "j", "k", "l", "m", "n",
     "o", "p", "q", "r", "s", "t", "u", "v", "w", "x", "y", "z"}
UPPER ==
    {"A", "B", "C", "D", "E", "F", "G", "H", "I", "J", "K", "L", "M", "N",
     "O", "P", "Q", "R", "S", "T", "U", "V", "W", "X", "Y", "Z"}

\* NSID_SEGMENT = '[a-zA-Z0-9-]+'; NSID_SEGMENT_RE.match(attr)
SegmentChar(c) == c \in LOWER \cup UPPER \/ IsDigit(c) \/ c = "-"
Segment(s) == s # <<>> /\ \A i \in 1..Len(s) : SegmentChar(s[i])

\* the one-character string U+000A (LINE FEED)
LF == "U+000A"

\* '$' matches at the end of the string and before a newline that ends it:
\* what re.match('^...$', s) matches in full
BeforeDollar(s) ==
    IF s # <<>> /\ s[Len(s)] = LF THEN {s, SubSeq(s, 1, Len(s) - 1)} ELSE {s}

\* NSID_SEGMENT_RE.match(attr)
SegmentMatch(attr) == \E s \in BeforeDollar(attr) : Segment(s)

\* NSID_RE = '^SEGMENT(\.SEGMENT)*$': segments joined by single dots
Nsid(s) ==
    /\ s # <<>>
    /\ \A i \in 1..Len(s) : SegmentChar(s[i]) \/ s[i] = "."
    /\ s[1] # "." /\ s[Len(s)] # "."
    /\ \A i \in 1..(Len(s) - 1) : ~(s[i] = "." /\ s[i + 1] = ".")

\* NSID_RE.match(nsid)
NsidMatch(nsid) == \E s \in BeforeDollar(nsid) : Nsid(s)

\* s.replace(old, new) for one-character old and new
Replace(s, old, new) ==
    [i \in 1..Len(s) |-> IF s[i] = old THEN new ELSE s[i]]

\* the attributes ordinary lookup finds, for which __getattr__ is not called:
\* call and defs on a Client, client and nsid on a _NsidClient
ClientAttrs == {<<"c", "a", "l", "l">>, <<"d", "e", "f", "s">>}
A_client == <<"c", "l", "i", "e", "n", "t">>
A_nsid == <<"n", "s", "i", "d">>

NoChain == [kind |-> "none"]
ClientObj(segs) == [kind |-> "client", segs |-> segs]
NsidClient(nsid, segs) == [kind |-> "nsid", nsid |-> nsid, segs |-> segs]
OtherObj(segs) == [kind |-> "other", segs |-> segs]
Failed(segs) == [kind |-> "failed", segs |-> segs]

\* Client(address, lexicons): Base.__init__ with the default flags
NewClient ==
    /\ op = "start"
    /\ LET r == Load(lexicons)
       IN  /\ base' = IF r.ok
                      THEN [built |-> TRUE, defs |-> r.defs,
                            validate |-> TRUE, truncate |-> FALSE]
                      ELSE NoBase
           /\ result' = IF r.ok THEN ReturnNone ELSE r.err
           /\ cur' = IF r.ok THEN ClientObj(<<>>) ELSE NoChain
    /\ op' = "client"
    /\ args' = NoArgs
    /\ UNCHANGED <<lexicons, value, params, raw, calls, frame, sent>>

\* Client.__getattr__(attr): _NsidClient(self, attr)
ClientGetAttr(attr, segs) ==
    IF attr \in ClientAttrs THEN OtherObj(segs)
    ELSE IF SegmentMatch(attr) THEN NsidClient(attr, segs)
    ELSE Failed(segs)

\* _NsidClient.__getattr__(attr): segment = attr.replace('-', '_');
\* _NsidClient(self.client, f'{self.nsid}.{segment}')
NsidGetAttr(nsid, attr, segs) ==
    IF attr = A_client THEN ClientObj(segs)
    ELSE IF attr = A_nsid THEN OtherObj(segs)
    ELSE IF SegmentMatch(attr)
    THEN NsidClient(nsid \o <<".">> \o Replace(attr, "-", "_"), segs)
    ELSE Failed(segs)

\* one attribute access in the chain client.seg1.seg2...
GetAttr(attr) ==
    /\ cur.kind \in {"client", "nsid"}
    /\ Len(cur.segs) < MaxSegs
    /\ cur' = IF cur.kind = "client"
              THEN ClientGetAttr(attr, Append(cur.segs, attr))
              ELSE NsidGetAttr(cur.nsid, attr, Append(cur.segs, attr))
    /\ result' = IF cur'.kind = "failed" THEN Raise("AttributeError", attr)
                 ELSE ReturnNone
    /\ op' = "getattr"
    /\ args' = [attr |-> attr]
    /\ UNCHANGED <<lexicons, base, value, params, raw, calls, frame,
                   sent>>

\* _NsidClient.__call__: nsid = self.nsid.replace('_', '-');
\* self.client.call(nsid, ...)
CalledNsid(nsid) == Replace(nsid, "_", "-")

Invoke ==
    /\ cur.kind = "nsid"
    /\ calls' = Append(calls, CalledNsid(cur.nsid))
    /\ cur' = [kind |-> "called", segs |-> cur.segs]
    /\ op' = "invoke"
    /\ args' = [nsid |-> CalledNsid(cur.nsid)]
    /\ result' = NoResult
    /\ UNCHANGED <<lexicons, base, value, params, raw, frame, sent>>

-----------------------------------------------------------------------------
(* Client.call, statement by statement.  frame.pc is the statement the     *)
(* call stands before; frame.passed collects the slots whose validation    *)
(* returned; frame.sent0 is the number of requests issued before the call. *)

MaxCalls == 2       \* calls of Client.call in one behaviour

NoFrame == [pc |-> "none"]

\* params or {} / input or {} / output or {}
OrEmpty(v) == IF v.k = "dict" /\ DOMAIN v.m # {} THEN v ELSE Obj(EmptyMap)

\* self._validate(nsid, type, obj) of the client's base class
ClientValidate(b, nsid, type, obj) == MaybeValidate(b, nsid, type, obj)

\* self._get_lexicon(nsid) of the client's base class
ClientGetLexicon(b, nsid) == GetDefResult(b, nsid)

\* Client._encode_param(param)
EncodeParam(param) ==
    IF param.k = "bool"
    THEN PyStr(IF param.n = 1 THEN <<"t", "r", "u", "e">>
                              ELSE <<"f", "a", "l", "s", "e">>)
    ELSE param

\* a faulty variant that goes on to the next statement after an exception
AfterSwallowing(r, next) == next

\* an exception raised by a statement leaves the call; otherwise the next
\* statement runs
After(r, next) == IF r.kind = "raise" THEN "raised" ELSE next

\* fn = requests.get if lexicon['type'] == 'query' else requests.post
TransportFn(lexicon) == IF lexicon.type = "query" THEN "get" ELSE "post"

\* a response of the transport: ok is FALSE when raise_for_status() raises;
\* json is TRUE when the Content-Type is application/json and the content is
\* not empty; body is what resp.json() returns then
Response(ok, json, body) == [ok |-> ok, json |-> json, body |-> body]

\* Client.call(nsid, params, input): up to the first _validate
CallBegin(nsid, p, i) ==
    /\ cur.kind = "client"
    /\ frame.pc \in {"none", "done", "raised"}
    /\ Len(calls) < MaxCalls
    /\ frame' = [pc |-> "params", nsid |-> nsid, params |-> OrEmpty(p),
                 input |-> OrEmpty(i), output |-> PyNone, passed |-> {},
                 fn |-> "", sent0 |-> Len(sent)]
    /\ calls' = Append(calls, nsid)
    /\ op' = "call"
    /\ args' = [nsid |-> nsid, params |-> p, input |-> i]
    /\ result' = NoResult
    /\ UNCHANGED <<lexicons, base, value, params, raw, cur, sent>>

\* self._validate(nsid, 'parameters', params)
CallValidateParams ==
    /\ frame.pc = "params"
    /\ LET r == ClientValidate(base, frame.nsid, "parameters", frame.params)
       IN  /\ frame' = [frame EXCEPT
                  !.pc = After(r, "input"),
                  !.passed = IF r.kind = "raise" THEN @
                             ELSE @ \cup {"parameters"}]
           /\ result' = IF r.kind = "raise" THEN r ELSE result
    /\ op' = "call_params"
    /\ UNCHANGED <<lexicons, base, value, params, raw, cur, calls, args, sent>>

\* self._validate(nsid, 'input', input)
CallValidateInput ==
    /\ frame.pc = "input"
    /\ LET r == ClientValidate(base, frame.nsid, "input", frame.input)
       IN  /\ frame' = [frame EXCEPT
                  !.pc = After(r, "encode"),
                  !.passed = IF r.kind = "raise" THEN @ ELSE @ \cup {"input"}]
           /\ result' = IF r.kind = "raise" THEN r ELSE result
    /\ op' = "call_input"
    /\ UNCHANGED <<lexicons, base, value, params, raw, cur, calls, args, sent>>

\* params = {name: self._encode_param(val) ...};
\* lexicon = self._get_lexicon(nsid); fn = ...
CallEncode ==
    /\ frame.pc = "encode"
    /\ LET r == ClientGetLexicon(base, frame.nsid)
           encoded == [n \in DOMAIN frame.params.m |->
                           EncodeParam(frame.params.m[n])]
       IN  /\ frame' = [frame EXCEPT
                  !.pc = After(r, "send"),
                  !.params = Obj(encoded),
                  !.fn = IF r.kind = "raise" THEN "" ELSE TransportFn(r.val)]
           /\ result' = IF r.kind = "raise" THEN r ELSE result
    /\ op' = "call_encode"
    /\ UNCHANGED <<lexicons, base, value, params, raw, cur, calls, args, sent>>

\* resp = fn(url, params=params, json=input, headers=...);
\* resp.raise_for_status(); output = resp.json() if JSON content, else None
CallTransport(resp) ==
    /\ frame.pc = "send"
    /\ sent' = Append(sent,
                 [fn |-> frame.fn,
                  nsid |-> frame.nsid, params |-> frame.params,
                  json |-> frame.input])
    /\ LET r == IF resp.ok THEN ReturnNone ELSE Raise("HTTPError", frame.nsid)
       IN  /\ frame' = [frame EXCEPT
                  !.pc = After(r, "output"),
                  !.output = IF resp.ok /\ resp.json THEN resp.body ELSE PyNone]
           /\ result' = IF r.kind = "raise" THEN r ELSE result
    /\ op' = "call_transport"
    /\ UNCHANGED <<lexicons, base, value, params, raw, cur, calls, args>>

\* self._validate(nsid, 'output', output or {}); return output
CallValidateOutput ==
    /\ frame.pc = "output"
    /\ LET r == ClientValidate(base, frame.nsid, "output",
                               OrEmpty(frame.output))
       IN  /\ frame' = [frame EXCEPT
                  !.pc = After(r, "done"),
                  !.passed = IF r.kind = "raise" THEN @ ELSE @ \cup {"output"}]
           /\ result' = IF After(r, "done") = "raised" THEN r
                        ELSE IF frame.output.k = "null" THEN ReturnNone
                        ELSE Return(frame.output)
    /\ op' = "call_output"
    /\ UNCHANGED <<lexicons, base, value, params, raw, cur, calls, args, sent>>

-----------------------------------------------------------------------------
(* XrpcEndpoint.dispatch_request of flask_server.py.                       *)

\* what a view returns: the body and the status
HttpResponse(status, body) ==
    [kind |-> "response", status |-> status, body |-> body]

\* the outcomes of self.server.call(nsid, params=..., input=...): the
\* output, or one of the dispatcher's errors; the two classes named
\* ValidationError are told apart by their module
ServerOutcomes ==
    {ReturnNone, Return(Obj(EmptyMap)), Return(Obj("out" :> PyStr(<<"a">>))),
     Raise("NotImplementedError", "call"),
     Raise("ValidationError", "call"),
     Raise("jsonschema.ValidationError", "call")}

\* the try statement: jsonify(output or '') on return; the except clauses
\* for NotImplementedError and for the ValidationError that flask_server.py
\* imports, which is jsonschema's; any other exception leaves the view
Handled(r) ==
    CASE r.kind # "raise" -> HttpResponse(200, r)
      [] r.exc = "NotImplementedError" -> HttpResponse(501, r)
      [] r.exc = "jsonschema.ValidationError" -> HttpResponse(400, r)
      [] OTHER -> r

\* dispatch_request(nsid) up to the call of the server
DispatchRequest(nsid) ==
    /\ base.built
    /\ frame.pc \in {"none", "responded"}
    /\ frame' = [pc |-> IF NsidMatch(nsid) THEN "serving" ELSE "responded",
                 nsid |-> nsid, dispatched |-> FALSE]
    /\ result' = IF NsidMatch(nsid) THEN NoResult
                 ELSE HttpResponse(400, Raise("not a valid NSID", nsid))
    /\ op' = "dispatch_request"
    /\ args' = [nsid |-> nsid]
    /\ UNCHANGED <<lexicons, base, value, params, raw, cur, calls, sent>>

\* output = self.server.call(...) and what the view makes of its outcome
ServerCall(outcome) ==
    /\ frame.pc = "serving"
    /\ frame' = [frame EXCEPT !.pc = "responded", !.dispatched = TRUE]
    /\ result' = Handled(outcome)
    /\ op' = "server_call"
    /\ args' = [nsid |-> frame.nsid, outcome |-> outcome]
    /\ UNCHANGED <<lexicons, base, value, params, raw, cur, calls, sent>>

-----------------------------------------------------------------------------
(* The registry specification: documents whose ids and definition names    *)
(* collide, with and without an id, with recognized and unrecognized       *)
(* definition types.                                                       *)

IdA == <<"a">>
IdAX == <<"a", "#", "x">>
NameX == <<"x">>
LoadTypes == {"query", "string", "bogus"}

\* the 'defs' dicts over the given names, in the order given
RECURSIVE DefsOver(_)
DefsOver(names) ==
    IF names = <<>> THEN {<<>>}
    ELSE LET rest == DefsOver(Tail(names))
         IN  rest \cup {<<Item(Head(names), Defn(ty, NoSlots))>> \o r :
                            ty \in LoadTypes, r \in rest}

LoadDocs ==
    {Doc(TRUE, IdA, d) : d \in DefsOver(<<MAIN, NameX>>)}
    \cup {Doc(TRUE, IdAX, d) : d \in DefsOver(<<MAIN>>)}
    \cup {Doc(h, <<>>, d) : h \in BOOLEAN,
                            d \in {<<>>, <<Item(MAIN, Defn("query", NoSlots))>>}}

RECURSIVE SeqsUpTo(_, _)
SeqsUpTo(S, n) ==
    IF n = 0 THEN {<<>>}
    ELSE LET shorter == SeqsUpTo(S, n - 1)
         IN  shorter \cup {Append(q, x) : q \in shorter, x \in S}

LoadIds == {IdA, IdAX, <<"b">>}

Idle ==
    /\ base = NoBase
    /\ value = Obj(EmptyMap)
    /\ params = <<>>
    /\ raw = <<>>
    /\ cur = [kind |-> "none"]
    /\ calls = <<>>
    /\ frame = [pc |-> "none"]
    /\ sent = <<>>
    /\ op = "start"
    /\ args = NoArgs
    /\ result = NoResult

InitLoad ==
    /\ lexicons \in SeqsUpTo(LoadDocs, MaxDocs)
    /\ Idle

NextLoad ==
    \/ \E v \in BOOLEAN, t \in BOOLEAN : Construct(v, t)
    \/ \E id \in LoadIds : GetDef(id)

SpecLoad == InitLoad /\ [][NextLoad]_vars

-----------------------------------------------------------------------------
(* Claims about the registry.                                              *)

WellFormedDoc(doc) ==
    /\ doc.has_id /\ doc.id # <<>>
    /\ \A j \in 1..Len(doc.defs) :
           doc.defs[j].defn.type \in LEXICON_TYPES \cup PARAMETER_TYPES

WellFormed(docs) == \A i \in 1..Len(docs) : WellFormedDoc(docs[i])

\* the fully-qualified id of definition j of document i
KeyOf(docs, i, j) ==
    IF docs[i].defs[j].name = MAIN THEN docs[i].id
    ELSE docs[i].id \o <<"#">> \o docs[i].defs[j].name

Places(docs) ==
    {p \in (1..Len(docs)) \X (1..2) : p[2] <= Len(docs[p[1]].defs)}

Later(p, q) == q[1] > p[1] \/ (q[1] = p[1] /\ q[2] > p[2])

\* C1: constructing Base from well-formed documents yields a registry whose
\* key set is exactly the fully-qualified ids of the (lexicon id, definition
\* name) pairs, id for 'main' and id#name otherwise, and under each key the
\* definition of the last document that produces it.
C1_RegistryKeys ==
    (op = "construct" /\ WellFormed(lexicons)) =>
        /\ result = ReturnNone
        /\ base.built
        /\ DOMAIN base.defs =
               {KeyOf(lexicons, p[1], p[2]) : p \in Places(lexicons)}
        /\ \A p \in Places(lexicons) :
               (\A q \in Places(lexicons) :
                    Later(p, q) =>
                        KeyOf(lexicons, q[1], q[2]) # KeyOf(lexicons, p[1], p[2]))
               => base.defs[KeyOf(lexicons, p[1], p[2])]
                      = lexicons[p[1]].defs[p[2]].defn

\* two documents produce the key a#x and the later one's definition is stored
C1_Witness ==
    /\ op = "construct" /\ WellFormed(lexicons)
    /\ Len(lexicons) = 2
    /\ lexicons[1].id = IdA /\ lexicons[2].id = IdAX
    /\ Len(lexicons[1].defs) = 2 /\ Len(lexicons[2].defs) = 1
    /\ lexicons[1].defs[2].defn.type = "query"
    /\ lexicons[2].defs[1].defn.type = "string"
    /\ base.built
    /\ base.defs[IdAX].type = "string"
    /\ DOMAIN base.defs = {IdA, IdAX}

FirstMalformed(docs) ==
    CHOOSE i \in 1..Len(docs) :
        /\ ~WellFormedDoc(docs[i])
        /\ \A h \in 1..(i - 1) : WellFormedDoc(docs[h])

\* C2: construction fails with ValidationError and produces no instance
\* whenever some document has a missing or empty id or some definition has an
\* unrecognized type, however many well-formed documents precede it; when the
\* first malformed document is one without an id, the error names its position.
C2_MalformedFails ==
    (op = "construct" /\ ~WellFormed(lexicons)) =>
        /\ IsRaise(result, "ValidationError")
        /\ ~base.built
        /\ LET i == FirstMalformed(lexicons)
           IN  (~lexicons[i].has_id \/ lexicons[i].id = <<>>)
                   => result = RaiseAt("ValidationError", i - 1)

\* a well-formed document with definitions, then one with an empty id
C2_Witness ==
    /\ op = "construct"
    /\ Len(lexicons) = 2
    /\ WellFormedDoc(lexicons[1]) /\ Len(lexicons[1].defs) = 2
    /\ lexicons[2].has_id /\ lexicons[2].id = <<>>
    /\ result = RaiseAt("ValidationError", 1)
    /\ ~base.built

-----------------------------------------------------------------------------
(* The validator specification: one definition, io "a", whose five slots   *)
(* carry the same schema; the caller's value holds or lacks the declared   *)
(* fields, with values of every runtime class.                             *)

ALPHA == <<"a", "b", "c", "d", "e", "f">>
Strings == {SubSeq(ALPHA, 1, n) : n \in 0..MaxStrLen}
LongStr == SubSeq(ALPHA, 1, MaxStrLen)

ItemVals == {PyStr(<<"a">>), PyInt(1)}
FieldVals ==
    {PyNone, PyBool(TRUE), PyInt(0), PyInt(3), PyFloat(15, 1),
     PyBytes(<<"a", "b">>), PyDict(0), PyDict(1)}
    \cup {PyStr(s) : s \in Strings}
    \cup {PyList(a) : a \in SeqsUpTo(ItemVals, 2)}

PropTypes == FIELD_TYPES \cup {"ref"}
Maxes == {<<FALSE, 0>>} \cup {<<TRUE, m>> : m \in 0..MaxGraphemes}
ItemTypes(ty) == IF ty = "array" THEN {"string", "integer"} ELSE {""}

\* the same schema in every slot: in the slot dict itself for 'record',
\* under its 'schema' key otherwise
SameSlots(enc, sch) ==
    [s \in SLOTS |-> IF s = "record" THEN Slot(enc, sch, NoSchema)
                                     ELSE Slot(enc, NoSchema, sch)]

ValDoc(id, slots) == Doc(TRUE, id, <<Item(MAIN, Defn("procedure", slots))>>)

\* one property, foo, of every type, with and without a maximum
OnePropSchemas ==
    {SchemaDict(<<Prop("foo", ty, mx[1], mx[2], it)>>, req, nul) :
        ty \in PropTypes, mx \in Maxes, it \in {"", "string", "integer"},
        req \in SUBSET {"foo"}, nul \in SUBSET {"foo"}}

OnePropScenarios ==
    {[lexicons |-> <<ValDoc(IdA, SameSlots("", sch))>>, value |-> Obj(m)] :
        sch \in {s \in OnePropSchemas :
                     s.properties[1].items \in ItemTypes(s.properties[1].type)},
        m \in {EmptyMap} \cup {("foo" :> v) : v \in FieldVals}}

\* two properties, foo and bar, in both orders
BarProps ==
    {Prop("bar", "integer", FALSE, 0, ""), Prop("bar", "string", TRUE, 1, "")}

TwoPropSchemas ==
    {SchemaDict(IF first THEN <<Prop("foo", ty, mx, MaxGraphemes, ""), bar>>
                         ELSE <<bar, Prop("foo", ty, mx, MaxGraphemes, "")>>,
                req, {}) :
        ty \in {"string", "integer", "ref"}, mx \in BOOLEAN, bar \in BarProps,
        first \in BOOLEAN, req \in SUBSET {"foo", "bar"}}

RECURSIVE MapOf(_)
MapOf(pairs) ==
    IF pairs = <<>> THEN EmptyMap
    ELSE (Head(pairs)[1] :> Head(pairs)[2]) @@ MapOf(Tail(pairs))

TwoPropValues ==
    {Obj(MapOf(f \o b)) :
        f \in {<<>>, <<<<"foo", PyInt(3)>>>>, <<<<"foo", PyStr(LongStr)>>>>},
        b \in {<<>>, <<<<"bar", PyInt(3)>>>>, <<<<"bar", PyStr(<<"a", "b">>)>>>>}}

TwoPropScenarios ==
    {[lexicons |-> <<ValDoc(IdA, SameSlots("", sch))>>, value |-> v] :
        sch \in TwoPropSchemas, v \in TwoPropValues}

\* slots with an encoding, with and without a schema, a schema without
\* properties, a slot whose 'schema' key is set for every slot, a registry
\* that does not hold "a"
EncodingSchemas ==
    {NoSchema, SchemaDict(<<>>, {}, {}),
     SchemaDict(<<Prop("foo", "string", TRUE, MaxGraphemes, "")>>, {"foo"}, {})}

EncodingScenarios ==
    {[lexicons |-> l, value |-> Obj(m)] :
        l \in {<<ValDoc(id, slots)>> :
                   id \in {IdA, <<"b">>},
                   slots \in {SameSlots(enc, sch) :
                                  enc \in {"", "application/json", "image/png"},
                                  sch \in EncodingSchemas}
                             \cup {[s \in SLOTS |-> Slot("", NoSchema, sch)] :
                                       sch \in EncodingSchemas}}
              \cup {<<>>},
        m \in {EmptyMap, "foo" :> PyInt(3), "foo" :> PyStr(LongStr)}}

InitValidate ==
    /\ \E sc \in OnePropScenarios \cup TwoPropScenarios \cup EncodingScenarios :
           /\ lexicons = sc.lexicons
           /\ value = sc.value
    /\ base = NoBase
    /\ params = <<>>
    /\ raw = <<>>
    /\ cur = [kind |-> "none"]
    /\ calls = <<>>
    /\ frame = [pc |-> "none"]
    /\ sent = <<>>
    /\ op = "start"
    /\ args = NoArgs
    /\ result = NoResult

NextValidate ==
    \/ \E v \in BOOLEAN, t \in BOOLEAN : Construct(v, t)
    \/ \E type \in SLOTS : Validate(IdA, type)
    \/ Revalidate

SpecValidate == InitValidate /\ [][NextValidate]_vars

-----------------------------------------------------------------------------
(* Claims about the validator.                                             *)

\* the last operation validated the caller's value against a slot, of a
\* registered definition, that has a schema
ValSlot == base.defs[args.nsid].slots[args.type]
ValSchema ==
    IF args.type = "record"
    THEN IF ValSlot.direct.nonempty THEN ValSlot.direct ELSE NoSchema
    ELSE ValSlot.schema
ValidatedWithSchema ==
    /\ op = "validate"
    /\ args.nsid \in DOMAIN base.defs
    /\ ValSchema.nonempty
JsonSlot == ValSlot.encoding \in {"", "application/json"}

ValProps == ValSchema.properties
Declared == {ValProps[i].name : i \in 1..Len(ValProps)}
IndexOf(name) == CHOOSE i \in 1..Len(ValProps) : ValProps[i].name = name
AbsentRequired == {n \in Declared \cap ValSchema.required : n \notin DOMAIN value.m}

\* the kind of a value, in the lexicon's names
KindOf(val) ==
    CASE val.k = "null" -> "null"
      [] val.k = "bool" -> "boolean"
      [] val.k = "int" -> "integer"
      [] val.k = "float" -> "number"
      [] val.k = "str" -> "string"
      [] val.k = "bytes" -> "bytes"
      [] val.k = "list" -> "array"
      [] val.k = "dict" -> "object"
SevenKinds ==
    {"null", "boolean", "integer", "string", "bytes", "array", "object"}

PrimitiveSchema == \A i \in 1..Len(ValProps) : ValProps[i].type \in SevenKinds
FieldsMatch ==
    \A i \in 1..Len(ValProps) :
        ValProps[i].name \in DOMAIN value.m
            => KindOf(value.m[ValProps[i].name]) = ValProps[i].type
NoNullField ==
    \A n \in DOMAIN value.m : n \in Declared => value.m[n].k # "null"

\* C3 as stated: with validation enabled, validating against a slot that has
\* a schema (its properties of the seven primitive kinds) fails with
\* ValidationError whenever a declared required property is absent, and
\* returns a value that has every required property and whose present fields
\* match their declared kinds unchanged.
C3_AsStated ==
    (ValidatedWithSchema /\ base.validate /\ PrimitiveSchema) =>
        /\ AbsentRequired # {} => IsRaise(result, "ValidationError")
        /\ (AbsentRequired = {} /\ FieldsMatch) => result = Return(value)

\* C3 (amended): with validation enabled and truncation disabled, validating
\* against a slot that has a schema (its properties of the seven primitive
\* kinds) and no non-JSON encoding fails with ValidationError whenever a
\* declared required property is absent, naming an absent required property
\* or a present property declared before them all; a value that has every
\* required property and whose present fields are not null and match their
\* declared kinds is returned unchanged.
C3_RequiredAndUnchanged ==
    (ValidatedWithSchema /\ base.validate /\ PrimitiveSchema
        /\ ~base.truncate /\ JsonSlot) =>
        /\ AbsentRequired # {} =>
               /\ IsRaise(result, "ValidationError")
               /\ \/ result.name \in AbsentRequired
                  \/ /\ result.name \in Declared \cap DOMAIN value.m
                     /\ \A a \in AbsentRequired :
                            IndexOf(result.name) < IndexOf(a)
        /\ (AbsentRequired = {} /\ FieldsMatch /\ NoNullField)
               => result = Return(value)

\* foo is present and a string, the required bar is absent: the error names bar
C3_Witness ==
    /\ ValidatedWithSchema /\ base.validate /\ ~base.truncate /\ JsonSlot
    /\ Len(ValProps) = 2
    /\ ValProps[1].name = "foo" /\ ValProps[1].type = "string"
    /\ ValProps[2].type = "integer"
    /\ ValSchema.required = {"bar"}
    /\ DOMAIN value.m = {"foo"}
    /\ value.m["foo"].k = "str"
    /\ result = Raise("ValidationError", "bar")

\* C4: with validation enabled, a present non-null value of one of the seven
\* primitive kinds fails with ValidationError against a property declared
\* with another of them.
C4_KindsDistinct ==
    (ValidatedWithSchema /\ base.validate /\ PrimitiveSchema /\ JsonSlot
        /\ ~base.truncate) =>
        \A i \in 1..Len(ValProps) :
            LET name == ValProps[i].name
            IN  (/\ name \in DOMAIN value.m
                 /\ KindOf(value.m[name]) \in SevenKinds \ {"null"}
                 /\ KindOf(value.m[name]) # ValProps[i].type)
                    => IsRaise(result, "ValidationError")

\* C5: with validation enabled, every item of an array-typed property's value
\* is checked against the declared item type, and validation fails with
\* ValidationError when an item's kind does not match.
C5_ArrayItemsChecked ==
    (ValidatedWithSchema /\ base.validate /\ PrimitiveSchema /\ JsonSlot
        /\ ~base.truncate) =>
        \A i \in 1..Len(ValProps) :
            LET name == ValProps[i].name
            IN  (/\ ValProps[i].type = "array"
                 /\ name \in DOMAIN value.m
                 /\ value.m[name].k = "list"
                 /\ \E j \in 1..Len(value.m[name].a) :
                        KindOf(value.m[name].a[j]) # ValProps[i].items)
                    => IsRaise(result, "ValidationError")

\* C6: when the slot declares a schema and validation is disabled, validate
\* returns the value itself (the truncated copy when truncation is enabled),
\* never None.
C6_DisabledReturnsValue ==
    (ValidatedWithSchema /\ JsonSlot /\ ~base.validate) =>
        /\ result.kind # "none"
        /\ (base.truncate => \A i \in 1..Len(ValProps) : ~ValProps[i].has_max)
               => result = Return(value)

\* the string s of the caller's field name, shortened to max characters
Shortened(s, max) == SubSeq(s, 1, max - 1) \o <<ELLIPSIS>>

TruncationHolds(minmax, jsononly) ==
    (ValidatedWithSchema /\ base.truncate /\ result.kind = "return"
        /\ (jsononly => JsonSlot)) =>
        \A i \in 1..Len(ValProps) :
            LET name == ValProps[i].name
                max == ValProps[i].max
            IN  (/\ ValProps[i].has_max /\ max >= minmax
                 /\ name \in DOMAIN value.m
                 /\ value.m[name].k = "str")
                    => LET s == value.m[name].s
                           got == result.val.m[name]
                       IN  /\ got.k = "str"
                           /\ Len(s) <= max => got.s = s
                           /\ Len(s) > max =>
                                  /\ got.s = Shortened(s, max)
                                  /\ Len(got.s) = max
                                  /\ Len(got.s) <= Len(s)

Unsupported == {"ref", "union", "token", "unknown", "cid-link"}

UnsupportedFields ==
    {i \in 1..Len(ValProps) :
        /\ ValProps[i].type \in Unsupported
        /\ ValProps[i].name \in DOMAIN value.m
        /\ value.m[ValProps[i].name].k # "null"}

\* every other declared property is absent and not required, or present,
\* not null and of its declared primitive kind
OthersPass ==
    \A i \in 1..Len(ValProps) :
        ValProps[i].type \notin Unsupported =>
            LET name == ValProps[i].name
            IN  IF name \in DOMAIN value.m
                THEN /\ ValProps[i].type \in SevenKinds
                     /\ KindOf(value.m[name]) = ValProps[i].type
                ELSE name \notin ValSchema.required

\* C13: with validation enabled, a present non-null field whose declared type
\* is an unsupported construct (ref, union, token, unknown, cid-link) is
\* accepted without a structural check: validate raises no error because of
\* that field, and returns the value when nothing else is wrong with it.
C13_UnsupportedAccepted ==
    (ValidatedWithSchema /\ base.validate /\ ~base.truncate /\ JsonSlot
        /\ UnsupportedFields # {}) =>
        /\ \A i \in UnsupportedFields :
               ~(result.kind = "raise" /\ result.name = ValProps[i].name)
        /\ OthersPass => result = Return(value)

\* C15: validation is idempotent: for every id, slot, configuration and value
\* for which validate succeeds, validating the result again succeeds and
\* returns an equal result.
C15_Idempotent ==
    op = "revalidate" => result = args.first

-----------------------------------------------------------------------------
(* The codec specification: method "a" declares a parameter of every       *)
(* parameter type (and o, of a type that is none), method "b" declares no  *)
(* parameters, "c" is not registered.                                      *)

IdB == <<"b">>
IdC == <<"c">>

CodecProps ==
    <<Prop("b", "boolean", FALSE, 0, ""), Prop("i", "integer", FALSE, 0, ""),
      Prop("n", "number", FALSE, 0, ""), Prop("s", "string", FALSE, 0, ""),
      Prop("a", "array", FALSE, 0, "string"),
      Prop("o", "object", FALSE, 0, "")>>

CodecLexicons ==
    <<Doc(TRUE, IdA,
          <<Item(MAIN,
                 Defn("query",
                      [NoSlots EXCEPT
                           !["parameters"] =
                               Slot("", SchemaDict(CodecProps, {}, {}),
                                    NoSchema)]))>>),
      Doc(TRUE, IdB, <<Item(MAIN, Defn("query", NoSlots))>>)>>

S_true == <<"t", "r", "u", "e">>
S_false == <<"f", "a", "l", "s", "e">>
S_yes == <<"y", "e", "s">>
S_x == <<"x">>
S_7 == <<"7">>
S_m12 == <<"-", "1", "2">>
S_1u0 == <<"1", "_", "0">>
S_sp7 == <<" ", "7">>
S_1p5 == <<"1", ".", "5">>
S_p5 == <<".", "5">>
S_1e2 == <<"1", "e", "2">>
S_nan == <<"n", "a", "n">>
S_inf == <<"i", "n", "f">>

ListItems == {PyStr(<<"a">>), PyStr(<<"b">>), PyInt(1)}

ParamEntries ==
    {Entry("b", PyBool(x)) : x \in BOOLEAN}
    \cup {Entry("i", PyInt(x)) : x \in {0, 7, 0 - 12}}
    \cup {Entry("n", x) : x \in {PyFloat(15, 1), PyFloat(2, 0),
                                 PyFloat(0 - 5, 1), PyNaN, PyInf(1), PyInt(7)}}
    \cup {Entry("s", PyStr(x)) : x \in {<<>>, <<"a">>, S_true, <<"1", "2">>}}
    \cup {Entry("a", PyList(x)) : x \in SeqsUpTo(ListItems, 2)}
    \cup {Entry("u", PyStr(S_x))}

DistinctNames(q) ==
    \A i \in 1..Len(q) : \A j \in 1..Len(q) : i # j => q[i].name # q[j].name

ParamMappings == {q \in SeqsUpTo(ParamEntries, MaxParams) : DistinctNames(q)}

RawEntries ==
    {Entry("b", x) : x \in {S_true, S_false, S_yes, <<>>}}
    \cup {Entry("i", x) : x \in {S_7, S_m12, S_1u0, S_sp7, S_1p5, S_x, <<>>}}
    \cup {Entry("n", x) : x \in {S_7, S_1p5, S_p5, S_nan, S_inf, S_1e2, S_x,
                                 <<>>}}
    \cup {Entry("s", x) : x \in {<<>>, S_x, S_true}}
    \cup {Entry("a", x) : x \in {S_x, S_7, <<>>}}
    \cup {Entry("u", S_x), Entry("o", S_x)}

RawInputs == SeqsUpTo(RawEntries, MaxPairs)

InitCodec ==
    /\ lexicons = CodecLexicons
    /\ \/ params \in ParamMappings /\ raw = <<>>
       \/ params = <<>> /\ raw \in RawInputs
    /\ base = NoBase
    /\ value = Obj(EmptyMap)
    /\ cur = [kind |-> "none"]
    /\ calls = <<>>
    /\ frame = [pc |-> "none"]
    /\ sent = <<>>
    /\ op = "start"
    /\ args = NoArgs
    /\ result = NoResult

NextCodec ==
    \/ Construct(TRUE, FALSE)
    \/ Encode
    \/ \E nsid \in {IdA, IdB, IdC} : Decode(nsid)

SpecCodec == InitCodec /\ [][NextCodec]_vars

-----------------------------------------------------------------------------
(* Claims about the codec.                                                 *)

\* the type the method's parameter schema declares for a name, string when
\* it declares none
DeclaredProps == base.defs[args.nsid].slots["parameters"].direct.properties
TypeFor(name) ==
    IF \E i \in 1..Len(DeclaredProps) :
           DeclaredProps[i].name = name /\ DeclaredProps[i].type # ""
    THEN DeclaredProps[CHOOSE i \in 1..Len(DeclaredProps) :
                           DeclaredProps[i].name = name].type
    ELSE "string"

Decoded == op = "decode" /\ args.nsid \in DOMAIN base.defs

\* a value of the kind its name is declared with (a number is a JSON number:
\* finite)
Matching(e) ==
    \/ e.val.k = "bool" /\ TypeFor(e.name) = "boolean"
    \/ e.val.k = "int" /\ TypeFor(e.name) = "integer"
    \/ e.val.k = "float" /\ e.val.s = <<>> /\ TypeFor(e.name) = "number"
    \/ e.val.k = "str" /\ TypeFor(e.name) = "string"
    \/ e.val.k = "list" /\ TypeFor(e.name) = "array"

\* the decoded mapping equals the caller's: the same keys, equal values,
\* booleans as booleans
RoundTrips ==
    /\ result.kind = "return"
    /\ DOMAIN result.val.m = {params[i].name : i \in 1..Len(params)}
    /\ \A i \in 1..Len(params) :
           /\ PyEq(result.val.m[params[i].name], params[i].val)
           /\ params[i].val.k = "bool"
                  => result.val.m[params[i].name].k = "bool"

\* C8 as stated: for every mapping of booleans, integers, numbers, strings
\* and arrays (the empty array and arrays of non-string items included) under
\* names declared with the matching type, decoding the pairs of its encoding
\* yields a mapping equal to it.
C8_AsStated ==
    (Decoded /\ args.encoded /\ \A i \in 1..Len(params) : Matching(params[i]))
        => RoundTrips

StringItems(v) == \A j \in 1..Len(v.a) : v.a[j].k = "str"

\* C8 (amended): the same for mappings whose arrays are not empty and hold
\* only strings.
C8_RoundTrip ==
    (Decoded /\ args.encoded
        /\ \A i \in 1..Len(params) :
               /\ Matching(params[i])
               /\ params[i].val.k = "list"
                      => params[i].val.a # <<>> /\ StringItems(params[i].val))
        => RoundTrips

\* a boolean and an array of two strings come back as they were
C8_Witness ==
    /\ Decoded /\ args.encoded /\ args.nsid = IdA
    /\ params = <<Entry("a", PyList(<<PyStr(<<"b">>), PyStr(<<"a">>)>>)),
                  Entry("b", PyBool(FALSE))>>
    /\ raw = <<Entry("a", <<"b">>), Entry("a", <<"a">>), Entry("b", S_false)>>
    /\ result = Return(Obj(("a" :> PyList(<<PyStr(<<"b">>), PyStr(<<"a">>)>>))
                           @@ ("b" :> PyBool(FALSE))))

\* the numbers the strings of the raw pairs denote, those of RawEntries and
\* those encode_params produces; the other strings denote none
IntTable ==
    (S_7 :> 7) @@ (S_m12 :> (0 - 12)) @@ (S_1u0 :> 10) @@ (S_sp7 :> 7)
    @@ (<<"0">> :> 0) @@ (<<"1">> :> 1) @@ (<<"1", "2">> :> 12)
FloatTable ==
    [s \in DOMAIN IntTable |-> PyFloat(IntTable[s], 0)]
    @@ (S_1p5 :> PyFloat(15, 1)) @@ (S_p5 :> PyFloat(5, 1))
    @@ (S_1e2 :> PyFloat(100, 0)) @@ (S_nan :> PyNaN) @@ (S_inf :> PyInf(1))
    @@ (<<"2", ".", "0">> :> PyFloat(2, 0))
    @@ (<<"-", "0", ".", "5">> :> PyFloat(0 - 5, 1))

FailsToDecode(e) ==
    \/ TypeFor(e.name) = "boolean" /\ e.val \notin {S_true, S_false}
    \/ TypeFor(e.name) = "integer" /\ e.val \notin DOMAIN IntTable
    \/ TypeFor(e.name) = "number" /\ e.val \notin DOMAIN FloatTable

Occurrences(name) == {i \in 1..Len(raw) : raw[i].name = name}
LastVal(name) ==
    raw[CHOOSE i \in Occurrences(name) :
            \A j \in Occurrences(name) : j <= i].val

ExpectedDecoded(name, got) ==
    CASE TypeFor(name) = "boolean" -> got = PyBool(LastVal(name) = S_true)
      [] TypeFor(name) = "integer" -> got = PyInt(IntTable[LastVal(name)])
      [] TypeFor(name) = "number" -> got = FloatTable[LastVal(name)]
      [] TypeFor(name) = "string" -> got = PyStr(LastVal(name))
      [] TypeFor(name) = "array" ->
            /\ got.k = "list"
            /\ Len(got.a) = Cardinality(Occurrences(name))
            /\ \A i \in Occurrences(name) :
                   got.a[Cardinality({j \in Occurrences(name) : j <= i})]
                       = PyStr(raw[i].val)

\* C9: decode_params decodes each raw pair by the type declared for its name,
\* string when none is declared: boolean yields true for "true" and false for
\* "false" and fails naming the parameter otherwise; integer and number yield
\* the parsed number and fail naming the parameter when the string does not
\* parse; array collects the occurrences of a name in order; string passes
\* through.
C9_DecodeByType ==
    (Decoded /\ \A i \in 1..Len(raw) : TypeFor(raw[i].name) \in PARAMETER_TYPES)
        => LET failing == {i \in 1..Len(raw) : FailsToDecode(raw[i])}
           IN  IF failing = {}
               THEN /\ result.kind = "return"
                    /\ DOMAIN result.val.m = {raw[i].name : i \in 1..Len(raw)}
                    /\ \A name \in DOMAIN result.val.m :
                           ExpectedDecoded(name, result.val.m[name])
               ELSE result =
                        Raise("ValueError",
                              raw[CHOOSE i \in failing :
                                      \A j \in failing : i <= j].name)

\* a well-formed integer, then a boolean that is neither true nor false
C9_Witness ==
    /\ Decoded /\ args.nsid = IdA
    /\ raw = <<Entry("i", S_1u0), Entry("b", S_yes)>>
    /\ result = Raise("ValueError", "b")

-----------------------------------------------------------------------------
(* The client specification: chains of attribute accesses on a client,     *)
(* then the invocation of what they denote.                                *)

Seg_io == <<"i", "o">>
Seg_ex == <<"e", "x">>
Seg_underscore == <<"d", "_", "n">>
Seg_hyphen == <<"d", "-", "n">>
Seg_bad == <<"a", "!">>

Segs == {Seg_io, Seg_ex, Seg_underscore, Seg_hyphen, Seg_bad, A_nsid,
         <<"c", "a", "l", "l">>}

InitClient ==
    /\ lexicons = CodecLexicons
    /\ Idle

NextClient ==
    \/ NewClient
    \/ \E attr \in Segs : GetAttr(attr)
    \/ Invoke

SpecClient == InitClient /\ [][NextClient]_vars

-----------------------------------------------------------------------------
(* Claims about the client.                                                *)

\* a segment that is a valid NSID segment once its underscores are hyphens
ValidOnceHyphenated(seg) ==
    /\ seg # <<>>
    /\ \A i \in 1..Len(seg) :
           seg[i] \in LOWER \cup UPPER \cup {"-", "_"} \/ IsDigit(seg[i])

Hyphenated(seg) == [i \in 1..Len(seg) |-> IF seg[i] = "_" THEN "-" ELSE seg[i]]

RECURSIVE Dotted(_)
Dotted(segs) ==
    IF Len(segs) = 1 THEN Hyphenated(segs[1])
    ELSE Dotted(SubSeq(segs, 1, Len(segs) - 1)) \o <<".">>
             \o Hyphenated(segs[Len(segs)])

\* the names ordinary attribute lookup resolves
Reserved == ClientAttrs \cup {A_client, A_nsid}

\* C10: for every sequence of accessed segments, each a valid NSID segment
\* once its underscores are replaced by hyphens, the accesses succeed and
\* invoking the result calls Client.call exactly once, with the segments
\* joined by dots, underscores converted to hyphens.
C10_DynamicNsid ==
    (cur.kind # "none" /\ cur.segs # <<>>
        /\ \A i \in 1..Len(cur.segs) :
               ValidOnceHyphenated(cur.segs[i]) /\ cur.segs[i] \notin Reserved)
        => /\ cur.kind \in {"nsid", "called"}
           /\ op = "invoke" => calls = <<Dotted(cur.segs)>>

-----------------------------------------------------------------------------
(* The client call specification: method "a" is a query with a required    *)
(* string parameter q and a required string output field out; method "b"   *)
(* is a procedure with a required integer input field bar; "c" is not      *)
(* registered.                                                             *)

CallSlots(par, inp, out) ==
    [s \in SLOTS |->
        CASE s = "parameters" -> Slot("", NoSchema, par)
          [] s = "input" -> Slot("", NoSchema, inp)
          [] s = "output" -> Slot("", NoSchema, out)
          [] OTHER -> NoSlot]

CallLexicons ==
    <<Doc(TRUE, IdA,
          <<Item(MAIN, Defn("query",
              CallSlots(SchemaDict(<<Prop("q", "string", FALSE, 0, "")>>,
                                   {"q"}, {}),
                        NoSchema,
                        SchemaDict(<<Prop("out", "string", FALSE, 0, "")>>,
                                   {"out"}, {}))))>>),
      Doc(TRUE, IdB,
          <<Item(MAIN, Defn("procedure",
              CallSlots(NoSchema,
                        SchemaDict(<<Prop("bar", "integer", FALSE, 0, "")>>,
                                   {"bar"}, {}),
                        NoSchema)))>>)>>

CallParams ==
    {PyNone, Obj(EmptyMap), Obj("q" :> PyStr(<<"a">>)), Obj("q" :> PyInt(3)),
     Obj("q" :> PyBool(TRUE))}
CallInputs ==
    {PyNone, Obj("bar" :> PyInt(3)), Obj("bar" :> PyStr(<<"a">>))}
Responses ==
    {Response(FALSE, FALSE, PyNone), Response(TRUE, FALSE, PyNone),
     Response(TRUE, TRUE, Obj(EmptyMap)),
     Response(TRUE, TRUE, Obj("out" :> PyStr(<<"a">>))),
     Response(TRUE, TRUE, Obj("out" :> PyInt(1)))}

InitCall ==
    /\ lexicons = CallLexicons
    /\ Idle

NextCall ==
    \/ NewClient
    \/ \E nsid \in {IdA, IdB, IdC}, p \in CallParams, i \in CallInputs :
           CallBegin(nsid, p, i)
    \/ CallValidateParams
    \/ CallValidateInput
    \/ CallEncode
    \/ \E resp \in Responses : CallTransport(resp)
    \/ CallValidateOutput

SpecCall == InitCall /\ [][NextCall]_vars

-----------------------------------------------------------------------------
(* Claims about Client.call.                                               *)

InCall == frame.pc # "none"
Requested == Len(sent) > frame.sent0

\* C11: in every execution of Client.call a transport request is issued only
\* after the identifier was resolved in the registry and params and input
\* passed validation; an unregistered identifier fails with
\* NotImplementedError and a params or input validation failure with
\* ValidationError, in both cases without a transport request; the output is
\* returned only after it passed validation against the output slot.
C11_CallOrder ==
    InCall =>
        /\ Requested =>
               /\ frame.nsid \in DOMAIN base.defs
               /\ {"parameters", "input"} \subseteq frame.passed
               /\ Len(sent) = frame.sent0 + 1
        /\ (frame.nsid \notin DOMAIN base.defs /\ frame.pc # "params") =>
               /\ frame.pc = "raised"
               /\ IsRaise(result, "NotImplementedError")
               /\ ~Requested
        /\ (/\ frame.pc = "raised"
            /\ ~({"parameters", "input"} \subseteq frame.passed)) =>
               /\ result.exc \in {"NotImplementedError", "ValidationError"}
               /\ ~Requested
        /\ frame.pc = "done" =>
               /\ "output" \in frame.passed
               /\ Requested
               /\ result \in {ReturnNone, Return(frame.output)}

\* a call of "a" with a valid q sent one get request and returned the
\* validated output
C11_Witness ==
    /\ frame.pc = "done"
    /\ frame.nsid = IdA
    /\ sent = <<[fn |-> "get", nsid |-> IdA,
                 params |-> Obj("q" :> PyStr(<<"a">>)),
                 json |-> Obj(EmptyMap)]>>
    /\ result = Return(Obj("out" :> PyStr(<<"a">>)))

-----------------------------------------------------------------------------
(* The endpoint specification: requests for identifiers inside and outside *)
(* the NSID grammar, served by a server of every configuration.            *)

EndpointNsids ==
    {IdA, <<"a", ".", "b">>, <<"a", "-", ".", "B", "1">>, <<"a", "_">>,
     <<"a", ".", ".", "b">>, <<".", "a">>, <<"a", ".">>, <<"a", " ">>,
     <<"a", LF>>}

InitEndpoint ==
    /\ lexicons = CallLexicons
    /\ Idle

NextEndpoint ==
    \/ \E v \in BOOLEAN, t \in BOOLEAN : Construct(v, t)
    \/ \E nsid \in EndpointNsids : DispatchRequest(nsid)
    \/ \E outcome \in ServerOutcomes : ServerCall(outcome)

SpecEndpoint == InitEndpoint /\ [][NextEndpoint]_vars

-----------------------------------------------------------------------------
(* Claims about the endpoint.                                              *)

\* the identifier grammar: one or more segments of letters, digits and
\* hyphens, joined by single dots
InGrammar(s) ==
    /\ s # <<>>
    /\ \A i \in 1..Len(s) :
           s[i] \in LOWER \cup UPPER \cup {"-", "."} \/ IsDigit(s[i])
    /\ s[1] # "." /\ s[Len(s)] # "."
    /\ \A i \in 1..(Len(s) - 1) : ~(s[i] = "." /\ s[i + 1] = ".")

Responded == frame.pc = "responded"
Status(n) == result.kind = "response" /\ result.status = n

\* C12: the endpoint maps every outcome of a request to exactly one status:
\* an identifier outside the NSID grammar to 400 without invoking the
\* dispatcher, a NotImplementedError of the dispatcher to 501, a
\* ValidationError of the core validator (lexrpc.base.ValidationError) to
\* 400, a successful call to 200.
C12_StatusMapping ==
    Responded =>
        /\ ~InGrammar(frame.nsid) => Status(400) /\ ~frame.dispatched
        /\ (frame.dispatched /\ args.outcome.kind # "raise") => Status(200)
        /\ (frame.dispatched /\ IsRaise(args.outcome, "NotImplementedError"))
               => Status(501)
        /\ (frame.dispatched /\ IsRaise(args.outcome, "ValidationError"))
               => Status(400)

-----------------------------------------------------------------------------
(* The core specification: every operation of Base on one instance, in any *)
(* order, on a definition whose slots hold a string foo with a maximum and *)
(* on the method definitions of the codec.                                 *)

CoreLexicons ==
    CodecLexicons
        \o <<ValDoc(IdAX, SameSlots("",
                SchemaDict(<<Prop("foo", "string", TRUE, MaxGraphemes, "")>>,
                           {}, {})))>>

CoreValues ==
    {Obj(EmptyMap), Obj("foo" :> PyStr(LongStr)), Obj("foo" :> PyStr(<<"a">>)),
     Obj("foo" :> PyInt(3))}

CoreParams ==
    {<<>>, <<Entry("b", PyBool(TRUE))>>,
     <<Entry("a", PyList(<<PyStr(<<"a">>), PyInt(1)>>)), Entry("i", PyInt(7))>>}

InitCore ==
    /\ lexicons = CoreLexicons
    /\ base = NoBase
    /\ value \in CoreValues
    /\ params \in CoreParams
    /\ raw \in {<<>>, <<Entry("b", S_yes)>>, <<Entry("i", S_7)>>}
    /\ cur = NoChain
    /\ calls = <<>>
    /\ frame = NoFrame
    /\ sent = <<>>
    /\ op = "start"
    /\ args = NoArgs
    /\ result = NoResult

NextCore ==
    \/ \E v \in BOOLEAN, t \in BOOLEAN : Construct(v, t)
    \/ \E id \in {IdA, IdAX, IdC} : GetDef(id)
    \/ \E nsid \in {IdA, IdAX}, type \in {"input", "record"} :
           Validate(nsid, type)
    \/ Revalidate
    \/ Encode
    \/ \E nsid \in {IdA, IdC} : Decode(nsid)

SpecCore == InitCore /\ [][NextCore]_vars

-----------------------------------------------------------------------------
(* Claims about every operation of the core.                               *)

CoreOps == {"get_def", "validate", "decode"}

\* C14: each of _get_def, validate and decode_params returns normally or
\* fails with NotImplementedError, ValidationError or a decoding ValueError
\* that names the parameter, and with no other kind of error.
C14_TypedErrors ==
    (op \in CoreOps /\ result.kind = "raise") =>
        \/ result.exc \in {"NotImplementedError", "ValidationError"}
        \/ /\ op = "decode"
           /\ result.exc = "ValueError"
           /\ \E i \in 1..Len(raw) : raw[i].name = result.name

\* C16: after construction, no sequence or interleaving of _get_def,
\* validate, encode_params and decode_params changes the registry or the
\* caller's value or parameter mapping, and construction does not change the
\* lexicon documents passed to it.
C16_Frame ==
    [][/\ lexicons' = lexicons
       /\ op' \in {"get_def", "validate", "revalidate", "encode", "decode"} =>
              /\ base' = base
              /\ value' = value
              /\ params' = params]_vars

\* truncation returned a shortened copy while the caller's mapping still
\* holds its over-long string
C16_Witness ==
    /\ op = "validate"
    /\ base.truncate
    /\ value = Obj("foo" :> PyStr(LongStr))
    /\ result.kind = "return"
    /\ result.val.m["foo"] = PyStr(Truncated(LongStr, MaxGraphemes))
    /\ result.val # value

=============================================================================
